---------------------------- MODULE Spec2Model ----------------------------
(***************************************************************************)
(* A model of src/src/pollers/poll_buffer.rs: LongPollBuffer (a pool of    *)
(* poll workers gated by the polls_requested semaphore, feeding a bounded  *)
(* mpsc channel, stopped through a watch channel) and WorkflowTaskPoller   *)
(* (a select! over a normal and an optional sticky LongPollBuffer).        *)
(*                                                                         *)
(* Every variable that is a field of LongPollBuffer is a function of the   *)
(* buffer ("normal" or "sticky").  One action is one step of a task        *)
(* between two await points.                                               *)
(***************************************************************************)
EXTENDS Naturals, Sequences, FiniteSets

\* ------------------------------------------------------------- bounds
\* The largest concurrent_pollers a construction draws.
MaxPollers == 2
\* The largest buffer_size a construction draws.
MaxBuffer == 1
\* The number of consumer tasks that may call poll().
MaxCallers == 2
\* The number of poll() futures ever created on one buffer.
MaxPolls == 2
\* The largest concurrent_pollers of a child of a WorkflowTaskPoller.
RaceMaxPollers == 1
\* The number of consumer tasks that may call WorkflowTaskPoller::poll().
RaceMaxCallers == 1
\* The number of poll() futures one consumer creates when it lets demand pile up.
MaxDemand == 4
\* The number of poll() calls the test interrupts: for _ in 0..10.
TestPolls == 10

VARIABLES
    children,           \* the LongPollBuffers that exist: {"normal"} or both
    concurrent_pollers, \* [buffer -> Nat], new()'s argument
    buffer_size,        \* [buffer -> Nat], new()'s argument
    polls_requested,    \* [buffer -> Nat], the semaphore's available permits
    shutdown,           \* [buffer -> BOOLEAN], the watch channel's value
    changed,            \* [buffer -> [worker -> BOOLEAN]], the receiver has an unseen version
    pc,                 \* [buffer -> [worker -> position in the spawned loop]]
    held,               \* [buffer -> [worker -> the invocation / outcome the worker holds]]
    buffered_polls,     \* [buffer -> Seq(outcome)], the mpsc channel's contents
    locked,             \* [buffer -> caller holding the Mutex, or 0]
    fut,                \* [caller -> [buffer -> position of its poll() future]]
    mode,               \* [caller -> "idle" | "direct" | "race"]
    last,               \* history: the caller, buffer and value of the latest poll() that returned
    join,               \* [buffer -> "live" | "waiting" | "done"], shutdown(self)
    notifying,          \* WorkflowTaskPoller::notify_shutdown is between its two sends
    calls,              \* history: [buffer -> poll() bodies started]
    started,            \* history: [buffer -> pf() invocations]
    requested,          \* history: [buffer -> shutdown.send(true) was called]
    delivered,          \* history: [buffer -> Seq(invocation id) of the outcomes poll() returned]
    pushed,             \* history: [buffer -> invocation ids of the outcomes sent into the channel]
    serial,             \* history: [buffer -> the consumer polled serially, no shutdown]
    test                \* only_polls_once_with_1_poller: loop iterations begun, task being run

vars == << children, concurrent_pollers, buffer_size, polls_requested, shutdown,
           changed, pc, held, buffered_polls, locked, fut, mode, last, join, notifying,
           calls, started, requested, delivered, pushed, serial, test >>

\* What no operation of a LongPollBuffer changes: new()'s arguments, and where the
\* test's main task and its runtime are.
cfgVars == << children, concurrent_pollers, buffer_size, test >>
workerVars == << polls_requested, changed, pc, held, buffered_polls, started, pushed >>
callerVars == << locked, fut, mode, last, calls, delivered, serial >>
stopVars == << shutdown, join, notifying, requested >>

\* ------------------------------------------------------------- values
Buffers == {"normal", "sticky"}
Callers == 1 .. MaxCallers
RaceCallers == 1 .. RaceMaxCallers
OneWorkerTooMany(b) == 1 .. concurrent_pollers[b] + 1
Workers(b) == 1 .. concurrent_pollers[b]

\* pollers::Result<T>: Ok or Err, tagged with the invocation that produced it.
Outcome(b, n, ok) == [src |-> b, id |-> n, ok |-> ok]
NoOutcome == [src |-> "none", id |-> 0, ok |-> FALSE]

\* Option<pollers::Result<T>>, and the value of a caller that has no result yet.
Some(o) == [some |-> TRUE, src |-> o.src, id |-> o.id, ok |-> o.ok]
None == [some |-> FALSE, src |-> "closed", id |-> 0, ok |-> FALSE]
NoReturn == [some |-> FALSE, src |-> "none", id |-> 0, ok |-> FALSE]
Returned(c, b, v) == [caller |-> c, buffer |-> b, value |-> v]

\* The value of test outside the test.
NotTesting == [iter |-> 0, running |-> "none"]


\* Dropping a LongPollBuffer without calling shutdown() is not an operation of the
\* model: the handle lives until shutdown(self) has returned.

\* ------------------------------------------------------- construction
\* LongPollBuffer::new with n workers and capacity k: nothing polled, nothing asked.
Constructed(present, n, k) ==
    /\ children = present
    /\ concurrent_pollers = [b \in Buffers |-> IF b \in present THEN n[b] ELSE 0]
    /\ buffer_size = [b \in Buffers |-> IF b \in present THEN k[b] ELSE 1]
    /\ polls_requested = [b \in Buffers |-> 0]
    /\ shutdown = [b \in Buffers |-> FALSE]
    /\ changed = [b \in Buffers |-> [w \in Workers(b) |-> FALSE]]
    /\ pc = [b \in Buffers |-> [w \in Workers(b) |-> "acquire"]]
    /\ held = [b \in Buffers |-> [w \in Workers(b) |-> NoOutcome]]
    /\ buffered_polls = [b \in Buffers |-> << >>]
    /\ locked = [b \in Buffers |-> 0]
    /\ fut = [c \in Callers |-> [b \in Buffers |-> "none"]]
    /\ mode = [c \in Callers |-> "idle"]
    /\ last = Returned(0, "none", NoReturn)
    /\ join = [b \in Buffers |-> "live"]
    /\ notifying = FALSE
    /\ calls = [b \in Buffers |-> 0]
    /\ started = [b \in Buffers |-> 0]
    /\ requested = [b \in Buffers |-> FALSE]
    /\ delivered = [b \in Buffers |-> << >>]
    /\ pushed = [b \in Buffers |-> {}]
    /\ serial = [b \in Buffers |-> TRUE]

\* One LongPollBuffer; tokio's channel(0) panics, so a buffer has capacity >= 1.
Init ==
    /\ test = NotTesting
    /\ \E n \in 0 .. MaxPollers, k \in 1 .. MaxBuffer :
           Constructed({"normal"}, [b \in Buffers |-> n], [b \in Buffers |-> k])

\* ------------------------------------------------------- primitives
\* Workers whose task has not finished: each owns a watch Receiver and a Sender clone.
Live(b) == {w \in Workers(b) : pc[b][w] # "exited"}

\* Every Sender is dropped: new()'s own tx at the end of new(), each clone with its task.
SenderKeptAlive(b) == FALSE
RecvNeverWaits(b) == TRUE
Closed(b) == Live(b) = {}

\* The bounded channel has no free slot for tx.send.
ChannelUnbounded(b) == FALSE
ChannelFull(b) == Len(buffered_polls[b]) >= buffer_size[b]

\* The permits left once a worker's SemaphorePermit is forgotten / is dropped.
PermitLostOnDrop(b) == polls_requested[b]
PermitsAfterDrop(b) == polls_requested[b] + 1
PermitNotForgotten(b) == polls_requested[b] + 1
PermitsAfterForget(b) == polls_requested[b]

\* watch::Sender::send(true): fails, leaving the value alone, when no Receiver is
\* left; otherwise stores true and bumps the version every Receiver compares with.
SendIgnored(b) == UNCHANGED << shutdown, changed >>
SendShutdown(b) ==
    IF Live(b) = {}
    THEN UNCHANGED << shutdown, changed >>
    ELSE /\ shutdown' = [shutdown EXCEPT ![b] = TRUE]
         /\ changed' = [changed EXCEPT ![b] =
                          [w \in Workers(b) |-> IF w \in Live(b) THEN TRUE ELSE @[w]]]

\* Invocations of pf whose future a worker is still awaiting.
InFlight(b) == {w \in Workers(b) : pc[b][w] = "poll"}

\* ------------------------------------------------------- the worker loop
\* loop { if *shutdown.borrow() { break; } ...: where a worker that reaches the top
\* of the loop goes next.  No await separates the top of the loop from the step
\* that led there, so the check is part of that step; a worker starts in the first
\* select! because the flag is false when it is spawned.
BreaksAfterOnePoll(b) == "exited"
LoopTop(b) == IF shutdown[b] THEN "exited" ELSE "acquire"

\* select! { sp = polls_requested.acquire() => sp, ... }, then the second select!
\* evaluates pf(): the invocation starts with the permit in hand.  held records
\* the number of the invocation in flight; its result is not known yet.
WorkerAcquire(b, w) ==
    /\ pc[b][w] = "acquire"
    /\ polls_requested[b] > 0
    /\ polls_requested' = [polls_requested EXCEPT ![b] = @ - 1]
    /\ started' = [started EXCEPT ![b] = @ + 1]
    /\ held' = [held EXCEPT ![b][w] = Outcome(b, started[b] + 1, FALSE)]
    /\ pc' = [pc EXCEPT ![b][w] = "poll"]
    /\ UNCHANGED << cfgVars, changed, buffered_polls, pushed, callerVars, stopVars >>

\* select! { ..., _ = shutdown.changed() => continue } while waiting for a permit.
WorkerWaitInterrupted(b, w) ==
    /\ pc[b][w] = "acquire"
    /\ changed[b][w]
    /\ changed' = [changed EXCEPT ![b][w] = FALSE]
    /\ pc' = [pc EXCEPT ![b][w] = LoopTop(b)]
    /\ UNCHANGED << cfgVars, polls_requested, held, buffered_polls, started,
                    pushed, callerVars, stopVars >>

\* select! { r = pf() => r, ... }; sp.forget(); the worker now owns r and goes to send it.
WorkerPolled(b, w, ok) ==
    /\ pc[b][w] = "poll"
    /\ held' = [held EXCEPT ![b][w] = Outcome(b, @.id, ok)]
    /\ polls_requested' = [polls_requested EXCEPT ![b] = PermitsAfterForget(b)]
    /\ pc' = [pc EXCEPT ![b][w] = "send"]
    /\ UNCHANGED << cfgVars, changed, buffered_polls, started, pushed,
                    callerVars, stopVars >>

\* select! { ..., _ = shutdown.changed() => continue } while pf() is in flight:
\* pf's future and sp are dropped, and dropping sp gives its permit back.
WorkerPollInterrupted(b, w) ==
    /\ pc[b][w] = "poll"
    /\ changed[b][w]
    /\ changed' = [changed EXCEPT ![b][w] = FALSE]
    /\ held' = [held EXCEPT ![b][w] = NoOutcome]
    /\ polls_requested' = [polls_requested EXCEPT ![b] = PermitsAfterDrop(b)]
    /\ pc' = [pc EXCEPT ![b][w] = LoopTop(b)]
    /\ UNCHANGED << cfgVars, buffered_polls, started, pushed, callerVars, stopVars >>

\* let _ = tx.send(r).await; waits for a free slot, then the loop starts over.
WorkerSend(b, w) ==
    /\ pc[b][w] = "send"
    /\ ~ChannelFull(b)
    /\ buffered_polls' = [buffered_polls EXCEPT ![b] = Append(@, held[b][w])]
    /\ pushed' = [pushed EXCEPT ![b] = @ \cup {held[b][w].id}]
    /\ held' = [held EXCEPT ![b][w] = NoOutcome]
    /\ pc' = [pc EXCEPT ![b][w] = LoopTop(b)]
    /\ UNCHANGED << cfgVars, polls_requested, changed, started, callerVars, stopVars >>

\* ------------------------------------------------------- poll()
\* The handle is usable: shutdown(self) has not consumed it.
Usable == \A b \in children : join[b] = "live"

\* poll() futures on b that exist and have run add_permits.
Outstanding(b) == {c \in Callers : fut[c][b] \in {"lock", "recv"}}

\* The Mutex after caller c's futures are dropped: a MutexGuard unlocks on drop.
Unlocked(c) == [b \in Buffers |-> IF locked[b] = c THEN 0 ELSE locked[b]]

\* The channel after caller c's futures are dropped: recv() is cancel safe, a
\* dropped recv() has taken nothing.
CancelTakesMessage(c) ==
    [b \in Buffers |-> IF fut[c][b] = "recv" /\ buffered_polls[b] # << >>
                       THEN Tail(buffered_polls[b]) ELSE buffered_polls[b]]
AfterCancel(c) == buffered_polls

\* Receiver::recv takes the oldest message out of the channel.
RecvKeepsMessage(b) == buffered_polls[b]
AfterRecv(b) == Tail(buffered_polls[b])

\* Whether a ready branch of WorkflowTaskPoller's select! completes the select:
\* it does, whatever the other branch is doing.
WaitsForOtherBranch(c, b) == \A o \in Buffers \ {b} : fut[c][o] = "none"
SelectCompletes(c, b) == TRUE

\* self.polls_requested.add_permits(1): the first thing a poll() future does.
AddsTwoPermits(c, b) ==
    /\ polls_requested' = [polls_requested EXCEPT ![b] = @ + 2]
    /\ calls' = [calls EXCEPT ![b] = @ + 1]
    /\ serial' = [serial EXCEPT ![b] = @ /\ Outstanding(b) = {} /\ ~requested[b]]
AddPermit(c, b) ==
    /\ polls_requested' = [polls_requested EXCEPT ![b] = @ + 1]
    /\ calls' = [calls EXCEPT ![b] = @ + 1]
    /\ serial' = [serial EXCEPT ![b] = @ /\ Outstanding(b) = {} /\ ~requested[b]]

\* LongPollBuffer::poll called and polled for the first time.
PollCalled(c, b) ==
    /\ mode[c] = "idle"
    /\ b \in children
    /\ Usable
    /\ AddPermit(c, b)
    /\ fut' = [fut EXCEPT ![c][b] = "lock"]
    /\ mode' = [mode EXCEPT ![c] = "direct"]
    /\ UNCHANGED << cfgVars, changed, pc, held, buffered_polls, started, pushed,
                    locked, last, delivered, stopVars >>

\* poll(), while the consumers have made fewer than MaxPolls calls.
Poll(c, b) == calls[b] < MaxPolls /\ PollCalled(c, b)

\* poll() by a consumer that lets up to MaxDemand permits pile up.
DemandPoll(c, b) == calls[b] < MaxDemand /\ PollCalled(c, b)

\* A poll() future that returned Pending when it was last polled: it waits for the
\* Mutex, or it holds the Mutex and recv() found the channel empty and open.
Pending(c, b) ==
    \/ fut[c][b] = "lock" /\ locked[b] # 0
    \/ fut[c][b] = "recv" /\ buffered_polls[b] = << >> /\ ~Closed(b)

\* WorkflowTaskPoller::poll with a sticky poller: select! creates both poll()
\* futures and polls one branch first, b, chosen at random.
RacePoll(c, b) ==
    /\ mode[c] = "idle"
    /\ children = Buffers
    /\ b \in children
    /\ Usable
    /\ \A o \in Buffers : calls[o] < MaxPolls
    /\ AddPermit(c, b)
    /\ fut' = [fut EXCEPT ![c] = [o \in Buffers |-> IF o = b THEN "lock" ELSE "unpolled"]]
    /\ mode' = [mode EXCEPT ![c] = "race"]
    /\ UNCHANGED << cfgVars, changed, pc, held, buffered_polls, started, pushed,
                    locked, last, delivered, stopVars >>

\* select! polls its other branch once the branch it polled first is Pending; a
\* branch that was Ready at once leaves the other future unpolled.
RacePollOther(c, b) ==
    /\ mode[c] = "race"
    /\ fut[c][b] = "unpolled"
    /\ \A o \in Buffers \ {b} : Pending(c, o)
    /\ AddPermit(c, b)
    /\ fut' = [fut EXCEPT ![c][b] = "lock"]
    /\ UNCHANGED << cfgVars, changed, pc, held, buffered_polls, started, pushed,
                    locked, mode, last, delivered, stopVars >>

\* let mut locked = self.buffered_polls.lock().await;
PollLock(c, b) ==
    /\ fut[c][b] = "lock"
    /\ locked[b] = 0
    /\ locked' = [locked EXCEPT ![b] = c]
    /\ fut' = [fut EXCEPT ![c][b] = "recv"]
    /\ UNCHANGED << cfgVars, workerVars, mode, last, calls, delivered, serial, stopVars >>

\* (*locked).recv().await yields Some(outcome); the future completes, and in a
\* select! the other branch's future is dropped.
PollRecv(c, b) ==
    /\ fut[c][b] = "recv"
    /\ buffered_polls[b] # << >>
    /\ SelectCompletes(c, b)
    /\ last' = Returned(c, b, Some(Head(buffered_polls[b])))
    /\ delivered' = [delivered EXCEPT ![b] = Append(@, Head(buffered_polls[b]).id)]
    /\ buffered_polls' = [o \in Buffers |-> IF o = b THEN AfterRecv(b) ELSE AfterCancel(c)[o]]
    /\ locked' = Unlocked(c)
    /\ fut' = [fut EXCEPT ![c] = [o \in Buffers |-> "none"]]
    /\ mode' = [mode EXCEPT ![c] = "idle"]
    /\ UNCHANGED << cfgVars, polls_requested, changed, pc, held, started, pushed,
                    calls, serial, stopVars >>

\* (*locked).recv().await yields None: the channel is empty and has no Sender.
PollClosed(c, b) ==
    /\ fut[c][b] = "recv"
    /\ buffered_polls[b] = << >>
    /\ Closed(b)
    /\ SelectCompletes(c, b)
    /\ last' = Returned(c, b, None)
    /\ buffered_polls' = AfterCancel(c)
    /\ locked' = Unlocked(c)
    /\ fut' = [fut EXCEPT ![c] = [o \in Buffers |-> "none"]]
    /\ mode' = [mode EXCEPT ![c] = "idle"]
    /\ UNCHANGED << cfgVars, polls_requested, changed, pc, held, started, pushed,
                    calls, delivered, serial, stopVars >>

\* The caller drops its poll() future before it completes (the test's select!
\* against interrupter_rx): the permit it added stays, a held MutexGuard unlocks.
PollAbandon(c) ==
    /\ mode[c] # "idle"
    /\ buffered_polls' = AfterCancel(c)
    /\ locked' = Unlocked(c)
    /\ fut' = [fut EXCEPT ![c] = [o \in Buffers |-> "none"]]
    /\ mode' = [mode EXCEPT ![c] = "idle"]
    /\ serial' = [b \in Buffers |-> serial[b] /\ fut[c][b] = "none"]
    /\ UNCHANGED << cfgVars, polls_requested, changed, pc, held, started, pushed,
                    last, calls, delivered, stopVars >>

\* ------------------------------------------------------- shutdown
\* let _ = self.shutdown.send(true); through a shared reference to the handle.
SignalShutdown(b) ==
    /\ b \in children
    /\ Usable
    /\ SendShutdown(b)
    /\ requested' = [requested EXCEPT ![b] = TRUE]
    /\ serial' = [serial EXCEPT ![b] = FALSE]
    /\ UNCHANGED << cfgVars, polls_requested, pc, held, buffered_polls, started,
                    pushed, locked, fut, mode, last, calls, delivered, join >>

\* LongPollBuffer::notify_shutdown.
NotifyShutdown(b) ==
    /\ SignalShutdown(b)
    /\ UNCHANGED notifying

\* WorkflowTaskPoller::notify_shutdown: self.normal_poller.notify_shutdown(); ...
RaceNotifyShutdown ==
    /\ ~notifying
    /\ SignalShutdown("normal")
    /\ notifying' = TRUE

\* ... if let Some(sq) = self.sticky_poller.as_ref() { sq.notify_shutdown(); }
RaceNotifySticky ==
    /\ notifying
    /\ SignalShutdown("sticky")
    /\ notifying' = FALSE

\* shutdown(mut self): it takes the handle, so no poll() future borrows it; it
\* sends true and starts awaiting the JoinHandles.  WorkflowTaskPoller::shutdown
\* shuts the sticky poller down once the normal poller's shutdown has returned.
Shutdown(b) ==
    /\ b \in children
    /\ join[b] = "live"
    /\ b = "sticky" => join["normal"] = "done"
    /\ \A c \in Callers : mode[c] = "idle"
    /\ ~notifying
    /\ SendShutdown(b)
    /\ requested' = [requested EXCEPT ![b] = TRUE]
    /\ serial' = [serial EXCEPT ![b] = FALSE]
    /\ join' = [join EXCEPT ![b] = "waiting"]
    /\ UNCHANGED << cfgVars, polls_requested, pc, held, buffered_polls, started,
                    pushed, locked, fut, mode, last, calls, delivered, notifying >>

\* while self.join_handles.next().await.is_some() {}: every task has finished.
ShutdownJoined(b) ==
    /\ join[b] = "waiting"
    /\ Live(b) = {}
    /\ join' = [join EXCEPT ![b] = "done"]
    /\ UNCHANGED << cfgVars, workerVars, callerVars, shutdown, notifying, requested >>

\* ------------------------------------------------------- one LongPollBuffer
WorkerStep(b, w) ==
    \/ WorkerAcquire(b, w)
    \/ WorkerWaitInterrupted(b, w)
    \/ \E ok \in BOOLEAN : WorkerPolled(b, w, ok)
    \/ WorkerPollInterrupted(b, w)
    \/ WorkerSend(b, w)

Next ==
    \/ \E b \in children : \E w \in Workers(b) : WorkerStep(b, w)
    \/ \E c \in Callers, b \in children : Poll(c, b)
    \/ \E c \in Callers, b \in children : PollLock(c, b)
    \/ \E c \in Callers, b \in children : PollRecv(c, b)
    \/ \E c \in Callers, b \in children : PollClosed(c, b)
    \/ \E c \in Callers : PollAbandon(c)
    \/ \E b \in children : NotifyShutdown(b)
    \/ \E b \in children : Shutdown(b)
    \/ \E b \in children : ShutdownJoined(b)

Spec == Init /\ [][Next]_vars

\* ------------------------------------------------------- scheduling
\* The runtime polls every task that has been woken, so a worker that can take a
\* step of its own takes one.  pf() resolving is the server's doing and is not forced.
WorkerFair(b, w) ==
    /\ w \in Workers(b)
    /\ \/ WorkerAcquire(b, w)
       \/ WorkerWaitInterrupted(b, w)
       \/ WorkerPollInterrupted(b, w)
       \/ WorkerSend(b, w)

\* A consumer that keeps awaiting its poll() future is polled when it is woken;
\* calling poll() and dropping the future are the consumer's choice.
CallerFair(c) ==
    \E b \in Buffers :
        PollLock(c, b) \/ PollRecv(c, b) \/ PollClosed(c, b) \/ RacePollOther(c, b)

Fairness ==
    /\ \A b \in Buffers : \A w \in 1 .. MaxPollers : WF_vars(WorkerFair(b, w))
    /\ \A c \in Callers : WF_vars(CallerFair(c))
    /\ \A b \in Buffers : WF_vars(ShutdownJoined(b))

FairSpec == Spec /\ Fairness

\* ------------------------------------------------------- WorkflowTaskPoller
\* WorkflowTaskPoller::new(normal, Some(sticky)): the children are private to it,
\* so they are polled and shut down through it alone.
RaceInit ==
    /\ test = NotTesting
    /\ \E n \in [Buffers -> 0 .. RaceMaxPollers], k \in [Buffers -> 1 .. MaxBuffer] :
           Constructed(Buffers, n, k)

RaceNext ==
    \/ \E b \in children : \E w \in Workers(b) : WorkerStep(b, w)
    \/ \E c \in RaceCallers, b \in children : RacePoll(c, b)
    \/ \E c \in RaceCallers, b \in children : RacePollOther(c, b)
    \/ \E c \in RaceCallers, b \in children : PollLock(c, b)
    \/ \E c \in RaceCallers, b \in children : PollRecv(c, b)
    \/ \E c \in RaceCallers, b \in children : PollClosed(c, b)
    \/ \E c \in RaceCallers : PollAbandon(c)
    \/ RaceNotifyShutdown
    \/ RaceNotifySticky
    \/ \E b \in children : Shutdown(b)
    \/ \E b \in children : ShutdownJoined(b)

RaceSpec == RaceInit /\ [][RaceNext]_vars

\* notify_shutdown is synchronous: its second send follows its first.  So is
\* shutdown: sq.shutdown() is called once normal_poller.shutdown() has returned.
FairRaceSpec ==
    RaceSpec /\ Fairness /\ WF_vars(RaceNotifySticky) /\ WF_vars(Shutdown("sticky"))

\* ------------------------------------------------------- accumulated demand
\* One LongPollBuffer and one consumer whose poll() calls, mostly dropped, leave
\* more permits than the workers and the channel can absorb.
DemandNext ==
    \/ \E b \in children : \E w \in Workers(b) : WorkerStep(b, w)
    \/ \E b \in children : DemandPoll(1, b)
    \/ \E b \in children : PollLock(1, b)
    \/ \E b \in children : PollRecv(1, b)
    \/ \E b \in children : PollClosed(1, b)
    \/ PollAbandon(1)
    \/ \E b \in children : NotifyShutdown(b)
    \/ \E b \in children : Shutdown(b)
    \/ \E b \in children : ShutdownJoined(b)

DemandSpec == Init /\ [][DemandNext]_vars

\* ------------------------------------------------------- the repository's test
\* only_polls_once_with_1_poller: new_workflow_task_buffer(mock_gateway, "someq", 1, 1),
\* run by #[tokio::test]: a current-thread runtime, the test's body being run first.
TestInit ==
    /\ test = [iter |-> 0, running |-> "main"]
    /\ Constructed({"normal"}, [b \in Buffers |-> 1], [b \in Buffers |-> 1])

\* select! { _ = interrupter_rx.recv() => ..., _ = pb.poll() => {} } polling the
\* poll() branch first, in one of the ten iterations; then pb.poll().await.
TestPoll ==
    /\ test.iter <= TestPolls
    /\ mode[1] = "idle"
    /\ Usable
    /\ AddPermit(1, "normal")
    /\ fut' = [fut EXCEPT ![1]["normal"] = "lock"]
    /\ mode' = [mode EXCEPT ![1] = "direct"]
    /\ test' = [test EXCEPT !.iter = @ + 1]
    /\ UNCHANGED << children, concurrent_pollers, buffer_size, changed, pc, held,
                    buffered_polls, started, pushed, locked, last, delivered, stopVars >>

\* The same select! polling the interrupter branch first: it is ready (ten messages
\* were sent ahead), so the poll() future is dropped without having been polled.
TestInterrupted ==
    /\ test.iter < TestPolls
    /\ mode[1] = "idle"
    /\ test' = [test EXCEPT !.iter = @ + 1]
    /\ UNCHANGED << children, concurrent_pollers, buffer_size, workerVars,
                    callerVars, stopVars >>

\* The steps of the test's body.  In the loop a Pending poll() loses to the
\* interrupter; after pb.poll().await.unwrap().unwrap() comes pb.shutdown().await.
TestMain ==
    \/ TestPoll
    \/ TestInterrupted
    \/ PollLock(1, "normal")
    \/ PollRecv(1, "normal")
    \/ test.iter <= TestPolls /\ Pending(1, "normal") /\ PollAbandon(1)
    \/ /\ test.iter = TestPolls + 1
       /\ last.value.some /\ last.value.ok
       /\ Shutdown("normal")
    \/ ShutdownJoined("normal")

\* The steps of the spawned task that do not wait for the mock's sleep.
TestWorker ==
    \/ WorkerAcquire("normal", 1)
    \/ WorkerWaitInterrupted("normal", 1)
    \/ WorkerPollInterrupted("normal", 1)
    \/ WorkerSend("normal", 1)

\* The current-thread runtime polls one task until it returns Pending, then polls
\* a task that has been woken.
TestSwitch ==
    /\ \/ /\ test.running = "main"
          /\ ~ENABLED TestMain
          /\ ENABLED TestWorker
          /\ test' = [test EXCEPT !.running = "worker"]
       \/ /\ test.running = "worker"
          /\ ~ENABLED TestWorker
          /\ ENABLED TestMain
          /\ test' = [test EXCEPT !.running = "main"]
    /\ UNCHANGED << children, concurrent_pollers, buffer_size, workerVars,
                    callerVars, stopVars >>

\* tokio::time::sleep(Duration::from_millis(100)) in the mock: the timer fires when
\* every task is waiting, no other step of the test taking time.
SleepElapsed == ~ENABLED TestMain /\ ~ENABLED TestWorker

\* The mock's future resolves: Ok(Default::default()).
TestSleep ==
    /\ SleepElapsed
    /\ WorkerPolled("normal", 1, TRUE)

TestNext ==
    \/ test.running = "main" /\ TestMain
    \/ test.running = "worker" /\ TestWorker
    \/ TestSwitch
    \/ TestSleep

TestSpec == TestInit /\ [][TestNext]_vars

\* ------------------------------------------------------- properties
\* poll() calls on b that have returned, when none was abandoned.
Completed(b) == calls[b] - Cardinality(Outstanding(b))

\* poll() futures on b that added their permit and ended without an outcome: they
\* were dropped before completing, or they returned None.
Unanswered(b) == calls[b] - Cardinality(Outstanding(b)) - Len(delivered[b])

\* Outcomes of b that a worker holds to send, or that wait in the channel.
Undelivered(b) ==
    Cardinality({w \in Workers(b) : pc[b][w] = "send"}) + Len(buffered_polls[b])

\* C1: demand gating: in every reachable state the number of pf invocations ever
\* started on a buffer is at most the number of poll() calls ever made on it.
C1_DemandGating == \A b \in children : started[b] <= calls[b]

\* C2: shutdown() terminates: once shutdown() has sent the signal and is awaiting
\* the JoinHandles, every worker eventually exits and shutdown() returns.
C2_ShutdownTerminates ==
    \A b \in Buffers : (join[b] = "waiting") ~> (join[b] = "done" /\ Live(b) = {})

\* C3: serial polling is sequential polling: while the consumer has never had two
\* poll() calls outstanding, has abandoned none and has not signalled shutdown, at
\* most one pf invocation is in flight, one is in flight only while a poll() call
\* is outstanding, and the invocations started are at most one more than the
\* poll() calls that have returned.
C3_SerialSequential ==
    \A b \in children :
        serial[b] =>
            /\ Cardinality(InFlight(b)) <= 1
            /\ InFlight(b) # {} => Outstanding(b) # {}
            /\ started[b] <= Completed(b) + 1

\* C3's case: two workers, and the second serial poll()'s invocation is in flight.
C3_Witness ==
    /\ serial["normal"]
    /\ concurrent_pollers["normal"] = 2
    /\ started["normal"] = 2
    /\ InFlight("normal") # {}

\* C4: bounded buffering with backpressure: the channel never holds more than
\* buffer_size outcomes, and a worker that holds a completed outcome while the
\* channel is full keeps that outcome and stays in tx.send across every step taken
\* from that state (only a poll() dequeuing makes room for it).
C4_BoundedBackpressure ==
    /\ [](\A b \in children : Len(buffered_polls[b]) <= buffer_size[b])
    /\ [][\A b \in children : \A w \in Workers(b) :
            (pc[b][w] = "send" /\ Len(buffered_polls[b]) = buffer_size[b]) =>
                /\ pc'[b][w] = "send"
                /\ held'[b][w] = held[b][w]]_vars

\* C4's case: a worker blocked in tx.send with the channel full.
C4_Witness ==
    \E w \in Workers("normal") :
        /\ pc["normal"][w] = "send"
        /\ Len(buffered_polls["normal"]) = buffer_size["normal"]

\* C5: poll() does not hang across shutdown: once the shutdown signal has been sent
\* on a buffer, every poll() future on it that is outstanding (at that moment or
\* later) eventually completes, and a value a poll() returned is None or an
\* outcome a worker sent into the channel.
C5_PollReturnsAcrossShutdown ==
    /\ \A c \in Callers : \A b \in Buffers :
           (requested[b] /\ fut[c][b] \in {"lock", "recv"}) ~> (fut[c][b] = "none")
    /\ [](last.value.some => last.value.id \in pushed[last.buffer])

\* C5's case: with workers, a poll() returned None after the signal was sent.
C5_Witness ==
    /\ concurrent_pollers["normal"] >= 1
    /\ requested["normal"]
    /\ last.buffer = "normal"
    /\ last.value = None

\* C6 as stated: None is the shut-down terminal signal: a poll() has returned None only if
\* shutdown was requested on its buffer, the flag is set, every worker has exited
\* and the channel is empty (all of which stay true once they hold).
C6_NoneOnlyAfterShutdown ==
    last.value = None =>
        /\ requested[last.buffer]
        /\ shutdown[last.buffer]
        /\ Live(last.buffer) = {}
        /\ buffered_polls[last.buffer] = << >>

\* C6 as amended: a poll() has returned None only if every worker of its buffer
\* has exited and the channel is empty; on a buffer built with at least one worker
\* that is only after shutdown was requested and the flag set.
C6_NoneOnlyWhenDrained ==
    last.value = None =>
        /\ Live(last.buffer) = {}
        /\ buffered_polls[last.buffer] = << >>
        /\ concurrent_pollers[last.buffer] >= 1 =>
               requested[last.buffer] /\ shutdown[last.buffer]

\* C6's case: two workers have exited on shutdown, and poll() then returned None.
C6_Witness ==
    /\ concurrent_pollers["normal"] = 2
    /\ shutdown["normal"]
    /\ last.value = None
    /\ started["normal"] >= 1

\* C7: at-most-once delivery: no outcome is returned by two poll() calls, every
\* outcome returned was sent into the channel by a worker, and an outcome that was
\* returned is no longer in the channel.
C7_AtMostOnce ==
    \A b \in children :
        /\ \A i, j \in DOMAIN delivered[b] : i # j => delivered[b][i] # delivered[b][j]
        /\ \A i \in DOMAIN delivered[b] : delivered[b][i] \in pushed[b]
        /\ \A i \in DOMAIN delivered[b] : \A k \in DOMAIN buffered_polls[b] :
               buffered_polls[b][k].id # delivered[b][i]

\* C7's case: two workers' outcomes were returned, the later one to the second caller.
C7_Witness ==
    /\ concurrent_pollers["normal"] = 2
    /\ Len(delivered["normal"]) = 2
    /\ last.caller = 2

\* C8: error pass-through: a worker whose pf() resolves to an Err keeps that Err to
\* send it, with no permit given back and no new invocation started for it; the
\* send appends exactly the outcome the worker holds, after which the worker is at
\* the top of its loop (waiting for demand again unless shutdown is set); and
\* poll() returns the channel's oldest outcome as it is.
C8_ErrorPassThrough ==
    /\ [][\A b \in children : \A w \in Workers(b) :
            (pc[b][w] = "poll" /\ pc'[b][w] = "send" /\ ~held'[b][w].ok) =>
                /\ held'[b][w] = Outcome(b, held[b][w].id, FALSE)
                /\ polls_requested'[b] = polls_requested[b]
                /\ started'[b] = started[b]]_vars
    /\ [][\A b \in children : \A w \in Workers(b) :
            (pc[b][w] = "send" /\ pc'[b][w] # "send" /\ ~held[b][w].ok) =>
                /\ buffered_polls'[b] = Append(buffered_polls[b], held[b][w])
                /\ pc'[b][w] = IF shutdown[b] THEN "exited" ELSE "acquire"]_vars
    /\ [][\A b \in children :
            delivered'[b] # delivered[b] =>
                /\ last'.value = Some(Head(buffered_polls[b]))
                /\ last'.buffer = b]_vars

\* C8's case: an Err was returned by poll() with no shutdown requested, and the
\* worker that produced it has a later invocation in flight.
C8_Witness ==
    /\ ~requested["normal"]
    /\ concurrent_pollers["normal"] = 1
    /\ last.value.some /\ ~last.value.ok
    /\ InFlight("normal") # {}

\* The other child of a WorkflowTaskPoller.
Other(b) == IF b = "normal" THEN "sticky" ELSE "normal"

\* The invocation ids of the outcomes in a sequence of outcomes.
Ids(q) == {q[i].id : i \in DOMAIN q}

\* C9: racing returns the first available child result: a composite poll() that
\* is receiving on a child whose channel holds an outcome, while the other child
\* has an invocation in flight and nothing buffered, completes without the other
\* child's invocation resolving; and a composite poll() that returns while the
\* other child's channel is empty and open returns the oldest outcome of the
\* child it received from.
C9_RaceReturnsFirst ==
    /\ \A c \in Callers : \A b \in Buffers :
           ( /\ mode[c] = "race"
             /\ fut[c][b] = "recv"
             /\ buffered_polls[b] # << >>
             /\ buffered_polls[Other(b)] = << >>
             /\ InFlight(Other(b)) # {} )
           ~> (mode[c] = "idle")
    /\ [][\A c \in Callers : \A b \in Buffers :
            ( /\ mode[c] = "race" /\ mode'[c] = "idle" /\ last' # last
              /\ buffered_polls[b] # << >>
              /\ buffered_polls[Other(b)] = << >> /\ ~Closed(Other(b)) ) =>
                last' = Returned(c, b, Some(Head(buffered_polls[b])))]_vars

\* C9's case: the composite poll() has returned the sticky child's outcome, having
\* added demand to both children, while the normal child's invocation is in flight.
C9_Witness ==
    /\ ~requested["normal"] /\ ~requested["sticky"]
    /\ last.buffer = "sticky" /\ last.value.some
    /\ calls["normal"] = 1 /\ calls["sticky"] = 1
    /\ InFlight("normal") # {}
    /\ buffered_polls["normal"] = << >> /\ delivered["normal"] = << >>

C11_CompositeShutdown ==
    /\ [][(join["sticky"] = "live" /\ join'["sticky"] = "waiting") =>
              /\ requested["normal"]
              /\ join["normal"] = "done"
              /\ Live("normal") = {}]_vars
    /\ [](join["sticky"] = "done" => Live("normal") = {} /\ Live("sticky") = {})
    /\ (join["normal"] = "waiting") ~> (join["sticky"] = "done")

\* C12: no refund on shutdown discard: a step in which a worker with an invocation
\* in flight takes the shutdown branch drops the invocation (the worker holds no
\* outcome afterwards and sends nothing) and does not increase polls_requested.
C12_NoRefundOnDiscard ==
    [][\A b \in children : \A w \in Workers(b) :
          (pc[b][w] = "poll" /\ pc'[b][w] \notin {"poll", "send"}) =>
              /\ held'[b][w] = NoOutcome
              /\ buffered_polls'[b] = buffered_polls[b]
              /\ polls_requested'[b] <= polls_requested[b]]_vars

\* C13 as stated: the demand counter equals the number of poll() calls outstanding
\* minus the invocations in flight or completed and not delivered yet (written
\* with the subtrahend moved to the left-hand side).
C13_DemandCounter ==
    \A b \in children :
        polls_requested[b] + Cardinality(InFlight(b)) + Undelivered(b)
            = Cardinality(Outstanding(b))

\* C13 as amended: the demand counter equals the number of poll() calls that added
\* a permit and have received no outcome (those outstanding, and those that were
\* abandoned or returned None), minus the invocations in flight or completed and
\* not delivered yet.
C13_DemandCounterWithAbandoned ==
    \A b \in children :
        polls_requested[b] + Cardinality(InFlight(b)) + Undelivered(b)
            = Cardinality(Outstanding(b)) + Unanswered(b)

\* C13's case: two poll() calls were abandoned; one permit is in the semaphore and
\* the other is held by the worker whose invocation is in flight.
C13_Witness ==
    /\ Outstanding("normal") = {}
    /\ Unanswered("normal") = 2
    /\ polls_requested["normal"] = 1
    /\ InFlight("normal") # {}

\* C14: concurrency cap: the pf invocations in flight on a buffer are never more
\* than concurrent_pollers, whatever demand has accumulated; with one worker at
\* most one is in flight.
C14_ConcurrencyCap ==
    \A b \in children :
        /\ Cardinality(InFlight(b)) <= concurrent_pollers[b]
        /\ Cardinality({held[b][w].id : w \in InFlight(b)}) = Cardinality(InFlight(b))
        /\ concurrent_pollers[b] = 1 => Cardinality(InFlight(b)) <= 1

\* C14's case: one worker, two abandoned poll() calls: one invocation in flight
\* while a second permit waits in the semaphore.
C14_Witness ==
    /\ concurrent_pollers["normal"] = 1
    /\ calls["normal"] = 2
    /\ Outstanding("normal") = {}
    /\ polls_requested["normal"] = 1
    /\ Cardinality(InFlight("normal")) = 1

\* C15: no polling after shutdown is signalled: in a state where the shutdown flag
\* of a buffer is true, no step starts a pf invocation on that buffer.
C15_NoPollAfterShutdown ==
    [][\A b \in children : shutdown[b] => started'[b] = started[b]]_vars

\* C16: abandoned poll() calls keep their effect: a step in which a poll() future
\* ends without an outcome leaves the permits and the channel as they were; the
\* channel changes only by a worker appending or by a poll() returning its oldest
\* outcome; a poll() that returns while the channel holds an outcome returns
\* Some of the oldest one, with no invocation started by that step; and a poll()
\* receiving on a channel that holds an outcome completes.
C16_AbandonedKeepsEffect ==
    /\ [][\A c \in Callers :
            (mode[c] # "idle" /\ mode'[c] = "idle" /\ delivered' = delivered) =>
                /\ polls_requested' = polls_requested
                /\ buffered_polls' = buffered_polls]_vars
    /\ [][\A b \in children :
            buffered_polls'[b] # buffered_polls[b] =>
                \/ /\ Len(buffered_polls'[b]) = Len(buffered_polls[b]) + 1
                   /\ SubSeq(buffered_polls'[b], 1, Len(buffered_polls[b])) = buffered_polls[b]
                   /\ delivered'[b] = delivered[b]
                \/ /\ buffered_polls[b] # << >>
                   /\ buffered_polls'[b] = Tail(buffered_polls[b])
                   /\ delivered'[b] = Append(delivered[b], Head(buffered_polls[b]).id)]_vars
    /\ [][\A c \in Callers : \A b \in children :
            (fut[c][b] = "recv" /\ buffered_polls[b] # << >> /\ last' # last) =>
                /\ last'.value = Some(Head(buffered_polls[b]))
                /\ started' = started]_vars
    /\ \A c \in Callers : \A b \in Buffers :
           (mode[c] = "direct" /\ fut[c][b] = "recv" /\ buffered_polls[b] # << >>)
           ~> (fut[c][b] = "none")

\* C16's case: the first poll() was abandoned, the one invocation its permit paid
\* for produced an outcome, and the second poll() returned that outcome with no
\* second invocation started.
C16_Witness ==
    /\ concurrent_pollers["normal"] = 1
    /\ ~requested["normal"]
    /\ calls["normal"] = 2
    /\ Unanswered("normal") = 1
    /\ started["normal"] = 1
    /\ delivered["normal"] = << 1 >>
    /\ last.value.some /\ last.value.id = 1

\* C18: permit conservation: in every reachable state, before and after shutdown
\* is requested, the poll() calls ever made on a buffer equal the permits in the
\* semaphore, plus the permits held by workers with an invocation in flight, plus
\* the invocations that completed (outcome held for sending, buffered or
\* delivered); and the semaphore changes only by a poll() adding one permit, a
\* worker taking one as it starts an invocation, or a worker with an invocation
\* in flight handing its permit back.
C18_PermitConservation ==
    /\ [](\A b \in children :
            calls[b] = polls_requested[b] + Cardinality(InFlight(b))
                       + Undelivered(b) + Len(delivered[b]))
    /\ [][\A b \in children :
            polls_requested'[b] # polls_requested[b] =>
                \/ /\ polls_requested'[b] = polls_requested[b] + 1
                   /\ calls'[b] = calls[b] + 1
                   /\ started'[b] = started[b]
                \/ /\ polls_requested'[b] + 1 = polls_requested[b]
                   /\ calls'[b] = calls[b]
                   /\ started'[b] = started[b] + 1
                   /\ Cardinality(InFlight(b)') = Cardinality(InFlight(b)) + 1
                \/ /\ polls_requested'[b] = polls_requested[b] + 1
                   /\ calls'[b] = calls[b]
                   /\ started'[b] = started[b]
                   /\ Cardinality(InFlight(b)') + 1 = Cardinality(InFlight(b))
                   /\ Undelivered(b)' = Undelivered(b)]_vars

\* C18's case: after shutdown was signalled a worker discarded its invocation and
\* the permit it held is back in the semaphore.
C18_Witness ==
    /\ requested["normal"] /\ shutdown["normal"]
    /\ calls["normal"] = 1
    /\ started["normal"] = 1
    /\ InFlight("normal") = {}
    /\ pushed["normal"] = {}
    /\ polls_requested["normal"] = 1

\* C20: composite None means fully drained: after WorkflowTaskPoller's
\* notify_shutdown has signalled both children, a step in which a composite
\* poll() returns None is taken only when neither child's channel holds an outcome.
C20_CompositeNoneMeansDrained ==
    [][\A c \in Callers :
          ( /\ requested["normal"] /\ requested["sticky"] /\ ~notifying
            /\ mode[c] = "race" /\ mode'[c] = "idle"
            /\ last' # last /\ last'.value = None ) =>
              \A b \in Buffers : buffered_polls[b] = << >>]_vars

\* C17: the test's count: in a run of only_polls_once_with_1_poller in which all
\* ten interrupted iterations called poll() (eleven permits added), no third
\* invocation is ever started; once pb.shutdown() has been called exactly two
\* invocations have been started and the awaited poll() returned the first
\* one's Ok; and the run ends only with shutdown() returned.
C17_TestScenarioCount ==
    calls["normal"] = TestPolls + 1 =>
        /\ started["normal"] <= 2
        /\ join["normal"] # "live" =>
               /\ started["normal"] = 2
               /\ last = Returned(1, "normal", Some(Outcome("normal", 1, TRUE)))
        /\ ~ENABLED TestNext => join["normal"] = "done"

\* C17's case: the test has ended: ten abandoned polls, the eleventh returned, two
\* invocations started, the second one discarded by shutdown() and its permit returned.
C17_Witness ==
    /\ test.iter = TestPolls + 1
    /\ calls["normal"] = TestPolls + 1
    /\ Unanswered("normal") = TestPolls
    /\ join["normal"] = "done"
    /\ started["normal"] = 2
    /\ delivered["normal"] = << 1 >>
    /\ polls_requested["normal"] = TestPolls

\* C19: read-ahead bound: on every buffer the pf invocations started exceed the
\* outcomes poll() has returned by at most buffer_size + concurrent_pollers,
\* however many permits abandoned poll() calls have left in the semaphore.
C19_ReadAheadBound ==
    \A b \in children :
        started[b] <= Len(delivered[b]) + buffer_size[b] + concurrent_pollers[b]

\* C19's case: four abandoned poll() calls and one worker: the channel is full, the
\* worker holds a second outcome in tx.send, and two permits stay unused.
C19_Witness ==
    /\ concurrent_pollers["normal"] = 1
    /\ ~requested["normal"]
    /\ calls["normal"] = MaxDemand
    /\ Unanswered("normal") = MaxDemand
    /\ started["normal"] = buffer_size["normal"] + 1
    /\ ChannelFull("normal")
    /\ pc["normal"][1] = "send"
    /\ polls_requested["normal"] = MaxDemand - started["normal"]
    /\ polls_requested["normal"] >= 2

=============================================================================
